---- MODULE Spec2Model ----
(***************************************************************************)
(* A model of app.py, the USCIS assistant chat page: the search tool       *)
(* search_uscis, the agent's retry configuration, the response extractor   *)
(* of get_agent_response_async, the wrapper get_agent_response and the     *)
(* chat turn that appends to st.session_state.messages.                    *)
(*                                                                         *)
(* Text is a sequence of chunks.  A chunk is a string: a single character  *)
(* where the code looks at characters (" ", "{", the letters of the site   *)
(* filter), or a whole literal of the source where the code only ever      *)
(* copies it.  A Python value that is a str or None is a record            *)
(* [none, s]: None is [none |-> TRUE, s |-> <<>>].                         *)
(***************************************************************************)
EXTENDS Naturals, Sequences, FiniteSets, TLC

(***************************************************************************)
(* Bounds of the model.                                                    *)
(***************************************************************************)
MaxTurns == 2
MaxToolCalls == 1
MaxItems == 6
MaxPieces == 3
MaxParts == 2
MaxEvents == 2

(***************************************************************************)
(* Python str / None values.                                               *)
(***************************************************************************)
None == [none |-> TRUE, s |-> <<>>]

Txt(s) == [none |-> FALSE, s |-> s]

\* bool(text): None and "" are falsy.
Truthy(t) == ~t.none /\ t.s # <<>>

IsSpace(c) == c = " "

RECURSIVE LStrip(_)
LStrip(s) == IF s # <<>> /\ IsSpace(Head(s)) THEN LStrip(Tail(s)) ELSE s

RECURSIVE RStrip(_)
RStrip(s) ==
    IF s # <<>> /\ IsSpace(s[Len(s)]) THEN RStrip(SubSeq(s, 1, Len(s) - 1)) ELSE s

\* str.strip()
Strip(s) == RStrip(LStrip(s))

\* str.startswith(c), c one character
StartsWith(s, c) == s # <<>> /\ Head(s) = c

\* needle in hay (substring test of Python's `in` on str)
Contains(hay, needle) ==
    \E i \in 1..(Len(hay) + 1) :
        /\ i + Len(needle) - 1 <= Len(hay)
        /\ SubSeq(hay, i, i + Len(needle) - 1) = needle

(***************************************************************************)
(* search_uscis: the query that is sent.                                   *)
(***************************************************************************)
SiteFilter == <<"s", "i", "t", "e", ":", "u", "s", "c", "i", "s", ".", "g", "o", "v">>

OutgoingQuery(query) ==
    IF ~Contains(query, SiteFilter) THEN SiteFilter \o <<" ">> \o query ELSE query

(***************************************************************************)
(* search_uscis: the HTTP call and the text returned to the agent.         *)
(* An HTTP outcome is what requests.get does: it raises (timeout after     *)
(* the 10 s budget, connection error) or it returns a response with a      *)
(* status, a body that is a JSON object or not, and the object's items.    *)
(***************************************************************************)
ResultCap == 5

HttpStatuses == {200, 300, 400, 404, 500, 599}

HttpOutcomes ==
    {[kind |-> k, status |-> 0, json |-> FALSE, items |-> 0] :
        k \in {"timeout", "connection"}}
    \cup {[kind |-> "response", status |-> st, json |-> FALSE, items |-> 0] :
        st \in HttpStatuses}
    \cup {[kind |-> "response", status |-> st, json |-> TRUE, items |-> n] :
        st \in HttpStatuses, n \in 0..MaxItems}

\* response.raise_for_status(): HTTPError for 4xx and 5xx
RaiseForStatus(status) == status >= 400 /\ status < 600

NoResults == Txt(<<"No results found on www.uscis.gov.">>)

SearchErrorPrefix == "Error searching USCIS: "

SearchError(e) == Txt(<<SearchErrorPrefix, e>>)

\* the three lines appended for the k-th item of the response
FormatItem(k) ==
    <<"Title: ", "title", ToString(k), "\n",
      "Link: ", "link", ToString(k), "\n",
      "Snippet: ", "snippet", ToString(k), "\n\n">>

RECURSIVE FormatItems(_, _)
FormatItems(k, n) == IF k > n THEN <<>> ELSE FormatItem(k) \o FormatItems(k + 1, n)

Min(a, b) == IF a <= b THEN a ELSE b

\* the text search_uscis returns for an HTTP outcome
SearchResultText(http) ==
    IF http.kind = "timeout" THEN SearchError("Read timed out.")
    ELSE IF http.kind = "connection" THEN SearchError("Connection error.")
    ELSE IF RaiseForStatus(http.status) THEN SearchError("HTTP Error for url")
    ELSE IF ~http.json THEN SearchError("Expecting value")
    ELSE IF http.items = 0 THEN NoResults
    ELSE Txt(FormatItems(1, Min(http.items, ResultCap)))

SearchUscis(query, http) ==
    [sent |-> OutgoingQuery(query), text |-> SearchResultText(http)]

(***************************************************************************)
(* create_agent: the retry options of the model.                           *)
(***************************************************************************)
Attempts == 5

RetryCodes == {429, 500, 503, 504}

\* statuses the generation backend answers an attempt with
BackendStatuses == {200, 400} \cup RetryCodes

\* what the client does after an attempt answered with `status`
AfterAttempt(status, n) ==
    IF status = 200 THEN "ok"
    ELSE IF status \in RetryCodes /\ n < Attempts THEN "retry"
    ELSE "raise"

(***************************************************************************)
(* get_agent_response_async: the response extractor.                       *)
(* An event is [hasContent, parts]: hasContent is FALSE when the event has *)
(* no content attribute or its content is None; parts is the sequence of   *)
(* the parts' .text values (None for a function call or response part).    *)
(***************************************************************************)
EmptyResponse == Txt(<<"An error occurred: The agent returned an empty response.">>)

ParseErrorPrefix == "An error occurred while parsing the agent's response: "

ParseError(e) == Txt(<<ParseErrorPrefix, e>>)

ProcessingErrorPrefix == "An error occurred while processing your request: "

ProcessingError(e) == Txt(<<ProcessingErrorPrefix, e>>)

Event(hasContent, parts) == [hasContent |-> hasContent, parts |-> parts]

\* the test of lines 132-134 on one event
Usable(ev) ==
    /\ ev.hasContent
    /\ ev.parts # <<>>
    /\ Truthy(ev.parts[1])
    /\ ~StartsWith(Strip(ev.parts[1].s), "{")

\* for event in reversed(result_events), from index i down
RECURSIVE ScanReversed(_, _)
ScanReversed(events, i) ==
    IF i = 0 THEN [found |-> FALSE, text |-> None]
    ELSE IF Usable(events[i]) THEN [found |-> TRUE, text |-> events[i].parts[1]]
    ELSE ScanReversed(events, i - 1)

\* lines 137-140, reached when the loop returned nothing
Fallback(events) ==
    IF events = <<>> THEN EmptyResponse
    ELSE LET last == events[Len(events)] IN
         IF ~last.hasContent
         THEN ParseError("'NoneType' object has no attribute 'parts'")
         ELSE IF last.parts # <<>> THEN last.parts[1]
         ELSE EmptyResponse

\* the value the inner try block of lines 129-144 returns
ExtractResponse(events) ==
    LET scan == ScanReversed(events, Len(events)) IN
    IF scan.found THEN scan.text ELSE Fallback(events)

(***************************************************************************)
(* The state of one page session.                                          *)
(*   messages       st.session_state.messages                              *)
(*   pc             where the script is within the turn                    *)
(*   turns          turns completed (bounded by MaxTurns)                  *)
(*   prompt         the text submitted in the current turn                 *)
(*   agent          `agent` of get_agent_response_async is not None        *)
(*   client         agent.model.client: "none" before the agent exists,    *)
(*                  "absent" when the model has no such attribute,         *)
(*                  "open", "closed"                                       *)
(*   attempts       number of the backend attempt in progress              *)
(*   toolCalls      calls of search_uscis made in this turn                *)
(*   toolQuery      the query the model passes to search_uscis             *)
(*   sentQuery      params["q"] of the last search request                 *)
(*   toolText       the text search_uscis last returned                    *)
(*   httpClass      what the last search request met: "failed" (transport  *)
(*                  failure or non-2xx), "malformed" (2xx, body no JSON),  *)
(*                  "empty" (2xx, no items), "hits"; "none" before         *)
(*   askedAfterFailure  the model was called with the text of a failed     *)
(*                  search                                                 *)
(*   result_events  the events run_debug has produced                      *)
(*   pending        how get_agent_response_async is about to exit          *)
(*   raisedBy       the step that first raised in this turn, or "none"     *)
(*   response       the value get_agent_response returned                  *)
(***************************************************************************)
VARIABLES messages, pc, turns, prompt, agent, client, attempts, toolCalls,
          toolQuery, sentQuery, toolText, httpClass, askedAfterFailure,
          result_events, pending, raisedBy, response

vars == <<messages, pc, turns, prompt, agent, client, attempts, toolCalls,
          toolQuery, sentQuery, toolText, httpClass, askedAfterFailure,
          result_events, pending, raisedBy, response>>

turnVars == <<agent, client, attempts, toolCalls, toolQuery, sentQuery, toolText,
              httpClass, askedAfterFailure, result_events, pending, raisedBy>>

Returned(v) == [raised |-> FALSE, value |-> v, err |-> ""]

Raised(e) == [raised |-> TRUE, value |-> None, err |-> e]

\* inputs of the turn model
Prompts == {<<"What is the I-90 form for?">>, <<"What's the weather today?">>}

ToolQueries == {<<"I", "-", "9", "0">>}

ModelTexts == {None, Txt(<<>>), Txt(<<"answer">>), Txt(<<"{", "\"name\": \"search_uscis\"}">>)}

\* what the model's last call adds to the events: nothing, an event without
\* content, an event without parts, or an event with one part
ModelOutputs ==
    {<<>>, <<Event(FALSE, <<>>)>>, <<Event(TRUE, <<>>)>>}
    \cup {<<Event(TRUE, <<t>>)>> : t \in ModelTexts}

\* the HTTP outcomes of the turn model: one of each kind that
\* SearchResultText tells apart
TurnHttpOutcomes ==
    {h \in HttpOutcomes :
        \/ h.kind = "timeout"
        \/ h.kind = "response" /\ h.status = 500 /\ ~h.json
        \/ h.kind = "response" /\ h.status = 200 /\ h.json /\ h.items <= 1}

\* the events a tool call leaves: the function call and the function
\* response, whose parts carry no text
ToolEvents == <<Event(TRUE, <<None>>), Event(TRUE, <<None>>)>>

HttpClass(http) ==
    IF http.kind # "response" \/ http.status < 200 \/ http.status > 299 THEN "failed"
    ELSE IF ~http.json THEN "malformed"
    ELSE IF http.items = 0 THEN "empty"
    ELSE "hits"

TurnInit ==
    /\ agent = FALSE
    /\ client = "none"
    /\ attempts = 0
    /\ toolCalls = 0
    /\ toolQuery = <<>>
    /\ sentQuery = <<>>
    /\ toolText = None
    /\ httpClass = "none"
    /\ askedAfterFailure = FALSE
    /\ result_events = <<>>
    /\ pending = Returned(None)
    /\ raisedBy = "none"

Init ==
    /\ messages = <<>>
    /\ pc = "idle"
    /\ turns = 0
    /\ prompt = <<>>
    /\ response = None
    /\ TurnInit

\* st.session_state.messages.append({"role": role, "content": content})
AppendEntry_Prepend(msgs, role, content) ==
    <<[role |-> role, content |-> content]>> \o msgs

AppendEntry(msgs, role, content) == Append(msgs, [role |-> role, content |-> content])

\* lines 169-173: the user submits p; the entry is appended, then the
\* pipeline is invoked
Submit(p) ==
    /\ pc = "idle"
    /\ turns < MaxTurns
    /\ messages' = AppendEntry(messages, "user", Txt(p))
    /\ prompt' = p
    /\ pc' = "create"
    /\ UNCHANGED <<turns, response, turnVars>>

\* lines 121-124: create_agent() and InMemoryRunner(agent=agent)
CreateAgent ==
    /\ pc = "create"
    /\ \/ /\ agent' = TRUE
          /\ client' \in {"open", "absent"}
          /\ attempts' = 1
          /\ pc' = "model"
          /\ UNCHANGED <<pending, raisedBy>>
       \/ /\ pending' = Raised("agent construction failed")
          /\ raisedBy' = "create"
          /\ pc' = "finally"
          /\ UNCHANGED <<agent, client, attempts>>
    /\ UNCHANGED <<messages, turns, prompt, response, toolCalls, toolQuery, sentQuery,
                   toolText, httpClass, askedAfterFailure, result_events>>

\* line 127, inside run_debug: one attempt of a model call under the retry
\* options of lines 78-83
BackendAttempt(status) ==
    /\ pc = "model"
    /\ askedAfterFailure' = (askedAfterFailure \/ httpClass = "failed")
    /\ LET next == AfterAttempt(status, attempts) IN
       \/ /\ next = "ok"
          /\ pc' = "generate"
          /\ attempts' = 0
          /\ UNCHANGED <<pending, raisedBy>>
       \/ /\ next = "retry"
          /\ attempts' = attempts + 1
          /\ UNCHANGED <<pc, pending, raisedBy>>
       \/ /\ next = "raise"
          /\ pending' = Raised(IF status < 500 THEN "ClientError" ELSE "ServerError")
          /\ raisedBy' = "backend"
          /\ pc' = "finally"
          /\ UNCHANGED attempts
    /\ UNCHANGED <<messages, turns, prompt, response, agent, client, toolCalls,
                   toolQuery, sentQuery, toolText, httpClass, result_events>>

\* the model answers with a function call of search_uscis
ModelCallsTool(q) ==
    /\ pc = "generate"
    /\ toolCalls < MaxToolCalls
    /\ toolQuery' = q
    /\ pc' = "tool"
    /\ UNCHANGED <<messages, turns, prompt, response, agent, client, attempts,
                   toolCalls, sentQuery, toolText, httpClass, askedAfterFailure,
                   result_events, pending, raisedBy>>

\* lines 28-72: search_uscis runs; its text goes back to the model, which
\* is called again
SearchTool(http) ==
    /\ pc = "tool"
    /\ LET r == SearchUscis(toolQuery, http) IN
       /\ sentQuery' = r.sent
       /\ toolText' = r.text
    /\ httpClass' = HttpClass(http)
    /\ toolCalls' = toolCalls + 1
    /\ result_events' = result_events \o ToolEvents
    /\ attempts' = 1
    /\ pc' = "model"
    /\ UNCHANGED <<messages, turns, prompt, response, agent, client, toolQuery,
                   askedAfterFailure, pending, raisedBy>>

\* the model answers without a function call: run_debug returns
ModelAnswers(out) ==
    /\ pc = "generate"
    /\ result_events' = result_events \o out
    /\ pc' = "parse"
    /\ UNCHANGED <<messages, turns, prompt, response, agent, client, attempts,
                   toolCalls, toolQuery, sentQuery, toolText, httpClass,
                   askedAfterFailure, pending, raisedBy>>

\* lines 129-144
ParseEvents ==
    /\ pc = "parse"
    /\ pending' = Returned(ExtractResponse(result_events))
    /\ pc' = "finally"
    /\ UNCHANGED <<messages, turns, prompt, response, agent, client, attempts,
                   toolCalls, toolQuery, sentQuery, toolText, httpClass,
                   askedAfterFailure, result_events, raisedBy>>

\* line 147: the finally block closes the client
Closes(agentSet, cl) == agentSet /\ cl = "open"

\* lines 146-148: the client after the function exits with `exit`; a
\* finally block runs whether the exit is a return or an exception
ClientAfterExit_ReturnOnly(exit, agentSet, cl) ==
    IF ~exit.raised /\ Closes(agentSet, cl) THEN "closed" ELSE cl

ClientAfterExit(exit, agentSet, cl) ==
    IF Closes(agentSet, cl) THEN "closed" ELSE cl

\* lines 146-148; close() may itself raise, which replaces the exit
Finally(closeRaises) ==
    /\ pc = "finally"
    /\ client' = ClientAfterExit(pending, agent, client)
    /\ IF closeRaises /\ client' = "closed"
       THEN /\ pending' = Raised("close failed")
            /\ raisedBy' = (IF raisedBy = "none" THEN "close" ELSE raisedBy)
       ELSE UNCHANGED <<pending, raisedBy>>
    /\ pc' = "wrapper"
    /\ UNCHANGED <<messages, turns, prompt, response, agent, attempts, toolCalls,
                   toolQuery, sentQuery, toolText, httpClass, askedAfterFailure,
                   result_events>>

\* lines 151-156: get_agent_response catches what asyncio.run raises
GetAgentResponse_NoCatch(exit) == exit

GetAgentResponse_ParseMessage(exit) ==
    IF exit.raised THEN Returned(ParseError(exit.err)) ELSE exit

GetAgentResponse(exit) ==
    IF exit.raised THEN Returned(ProcessingError(exit.err)) ELSE exit

\* lines 177-178: the wrapper returns into the chat turn; an exception it
\* let through would end the script run before line 180
Wrapper ==
    /\ pc = "wrapper"
    /\ LET got == GetAgentResponse(pending) IN
       IF got.raised
       THEN /\ pc' = "idle"
            /\ turns' = turns + 1
            /\ UNCHANGED response
       ELSE /\ response' = got.value
            /\ pc' = "append"
            /\ UNCHANGED turns
    /\ UNCHANGED <<messages, prompt, turnVars>>

\* line 180
AppendAssistant ==
    /\ pc = "append"
    /\ messages' = AppendEntry(messages, "assistant", response)
    /\ turns' = turns + 1
    /\ pc' = "idle"
    /\ UNCHANGED <<prompt, response>>
    /\ agent' = FALSE
    /\ client' = "none"
    /\ attempts' = 0
    /\ toolCalls' = 0
    /\ toolQuery' = <<>>
    /\ sentQuery' = <<>>
    /\ toolText' = None
    /\ httpClass' = "none"
    /\ askedAfterFailure' = FALSE
    /\ result_events' = <<>>
    /\ pending' = Returned(None)
    /\ raisedBy' = "none"

Next ==
    \/ \E p \in Prompts : Submit(p)
    \/ CreateAgent
    \/ \E status \in BackendStatuses : BackendAttempt(status)
    \/ \E q \in ToolQueries : ModelCallsTool(q)
    \/ \E http \in TurnHttpOutcomes : SearchTool(http)
    \/ \E out \in ModelOutputs : ModelAnswers(out)
    \/ ParseEvents
    \/ \E closeRaises \in BOOLEAN : Finally(closeRaises)
    \/ Wrapper
    \/ AppendAssistant

Spec == Init /\ [][Next]_vars

(***************************************************************************)
(* search_uscis on its own: every query of QueryInputs against every HTTP  *)
(* outcome.                                                                *)
(***************************************************************************)
SeqsUpTo(S, n) == UNION {[1..k -> S] : k \in 0..n}

RECURSIVE Flatten(_)
Flatten(ss) == IF ss = <<>> THEN <<>> ELSE Head(ss) \o Flatten(Tail(ss))

QueryPieces ==
    { SiteFilter,
      <<" ">>,
      <<"I", "-", "9", "0">>,
      <<"s", "i", "t", "e", ":">>,
      <<".", "e", "x", "a", "m", "p", "l", "e", ".", "c", "o", "m">> }

QueryInputs == {Flatten(ps) : ps \in SeqsUpTo(QueryPieces, MaxPieces)}

InitQuery ==
    /\ messages = <<[role |-> "user", content |-> Txt(<<"What is the I-90 form for?">>)]>>
    /\ pc = "tool"
    /\ turns = 0
    /\ prompt = <<"What is the I-90 form for?">>
    /\ response = None
    /\ agent = TRUE
    /\ client = "open"
    /\ attempts = 0
    /\ toolCalls = 0
    /\ toolQuery \in QueryInputs
    /\ sentQuery = <<>>
    /\ toolText = None
    /\ httpClass = "none"
    /\ askedAfterFailure = FALSE
    /\ result_events = <<>>
    /\ pending = Returned(None)
    /\ raisedBy = "none"

NextQuery == \E http \in HttpOutcomes : SearchTool(http)

SpecQuery == InitQuery /\ [][NextQuery]_vars

(***************************************************************************)
(* The response extractor on its own: every event sequence of EventSeqs.   *)
(***************************************************************************)
PartTexts ==
    { None, Txt(<<>>), Txt(<<"a">>), Txt(<<"b">>), Txt(<<" ">>),
      Txt(<<"{", "a">>), Txt(<<" ", "{">>) }

Events ==
    {Event(FALSE, <<>>)} \cup {Event(TRUE, ps) : ps \in SeqsUpTo(PartTexts, MaxParts)}

EventSeqs == SeqsUpTo(Events, MaxEvents)

InitExtract ==
    /\ messages = <<[role |-> "user", content |-> Txt(<<"What is the I-90 form for?">>)]>>
    /\ pc = "parse"
    /\ turns = 0
    /\ prompt = <<"What is the I-90 form for?">>
    /\ response = None
    /\ agent = TRUE
    /\ client = "open"
    /\ attempts = 0
    /\ toolCalls = 0
    /\ toolQuery = <<>>
    /\ sentQuery = <<>>
    /\ toolText = None
    /\ httpClass = "none"
    /\ askedAfterFailure = FALSE
    /\ result_events \in EventSeqs
    /\ pending = Returned(None)
    /\ raisedBy = "none"

NextExtract == ParseEvents

SpecExtract == InitExtract /\ [][NextExtract]_vars

(***************************************************************************)
(* Notions the claims use.                                                 *)
(***************************************************************************)
\* the number of whitespace-delimited tokens of s equal to tok; cur is the
\* token being read
RECURSIVE CountTokens(_, _, _)
CountTokens(s, cur, tok) ==
    IF s = <<>> THEN (IF cur = tok THEN 1 ELSE 0)
    ELSE IF IsSpace(Head(s))
         THEN (IF cur = tok THEN 1 ELSE 0) + CountTokens(Tail(s), <<>>, tok)
         ELSE CountTokens(Tail(s), Append(cur, Head(s)), tok)

\* non-empty text that does not start with a brace
Plain(t) == Truthy(t) /\ ~StartsWith(Strip(t.s), "{")

HasPlain(ev) == ev.hasContent /\ \E j \in 1..Len(ev.parts) : Plain(ev.parts[j])

IsProcessingError(t) == ~t.none /\ Len(t.s) = 2 /\ t.s[1] = ProcessingErrorPrefix

IsSearchError(t) == ~t.none /\ Len(t.s) = 2 /\ t.s[1] = SearchErrorPrefix

Odd(i) == i % 2 = 1

(***************************************************************************)
(* The claims.                                                             *)
(***************************************************************************)

\* C1: the query sent to the search API contains the token site:uscis.gov
\* exactly once, whatever the user's text contains.
C1_FilterExactlyOnce ==
    (pc = "model" /\ toolCalls > 0) => CountTokens(sentQuery, <<>>, SiteFilter) = 1

\* C2: when some event carries plain text, the extractor returns the plain
\* text of the event nearest the end that carries any, whichever of its
\* parts holds it.
C2_NearestPlainAnyPart ==
    (pc = "finally" /\ \E i \in 1..Len(result_events) : HasPlain(result_events[i])) =>
        LET i == CHOOSE k \in 1..Len(result_events) :
                     /\ HasPlain(result_events[k])
                     /\ \A m \in (k + 1)..Len(result_events) : ~HasPlain(result_events[m])
            ev == result_events[i]
        IN  /\ ~pending.raised
            /\ \E j \in 1..Len(ev.parts) : Plain(ev.parts[j]) /\ pending.value = ev.parts[j]

\* C3: when no event carries plain text, the extractor returns the fixed
\* empty-response string and nothing else.
C3_NoPlainGivesEmptyResponse ==
    (pc = "finally" /\ \A i \in 1..Len(result_events) : ~HasPlain(result_events[i])) =>
        pending = Returned(EmptyResponse)

\* C4: a failed search aborts the turn: the reply is the generic
\* processing-error message and the model is not called with the failed
\* search's text.
C4_FailedSearchAbortsTurn ==
    (pc = "append" /\ httpClass = "failed") =>
        (IsProcessingError(response) /\ ~askedAfterFailure)

\* C5: every turn, whatever its outcome, adds exactly two entries to the
\* log: the user's entry with the submitted text, then one assistant entry
\* with the reply.
C5_TurnAddsTwoEntries ==
    /\ Len(messages) = 2 * turns + (IF pc = "idle" THEN 0 ELSE 1)
    /\ (pc = "idle" /\ turns > 0) =>
          /\ messages[2 * turns - 1] = [role |-> "user", content |-> Txt(prompt)]
          /\ messages[2 * turns] = [role |-> "assistant", content |-> response]

C5_Witness ==
    /\ pc = "idle"
    /\ turns > 0
    /\ Len(messages) = 2 * turns
    /\ IsProcessingError(response)

\* C6: the reply appended for a turn is a non-empty text that is not None
\* and does not begin with a brace.
C6_ReplyIsVisibleText ==
    pc = "append" => (Truthy(response) /\ ~StartsWith(response.s, "{"))

\* C7: a failed search (transport failure or non-2xx response) is reported
\* as an explicit failure and never as "no results"; a successful search
\* without items is reported as "no results" and never as a failure.
C7_FailureDistinctFromNoMatches ==
    (pc = "model" /\ toolCalls > 0) =>
        /\ httpClass = "failed" => (IsSearchError(toolText) /\ toolText # NoResults)
        /\ httpClass = "empty" => (toolText = NoResults /\ ~IsSearchError(toolText))

C9_BackendFailureIsProcessingError ==
    /\ attempts <= Attempts
    /\ (raisedBy = "backend" /\ pc # "idle") =>
          /\ attempts <= Attempts
          /\ pending.err = "ServerError" => attempts = Attempts
          /\ pc = "append" => IsProcessingError(response)

C9_Witness ==
    /\ pc = "append"
    /\ raisedBy = "backend"
    /\ attempts = Attempts
    /\ IsProcessingError(response)

\* C10: the log is append-only and ordered: a step never changes, removes
\* or reorders an entry; the user's entry is in the log while the pipeline
\* runs and the assistant's entry only follows its return; roles alternate
\* user, assistant.
C10_LogAppendOnlyAlternating ==
    /\ [][/\ Len(messages') >= Len(messages)
          /\ SubSeq(messages', 1, Len(messages)) = messages]_vars
    /\ [](\A i \in 1..Len(messages) :
              messages[i].role = (IF Odd(i) THEN "user" ELSE "assistant"))
    /\ [](pc # "idle" =>
              /\ Odd(Len(messages))
              /\ messages[Len(messages)] = [role |-> "user", content |-> Txt(prompt)])

C10_Witness ==
    /\ pc = "idle"
    /\ Len(messages) >= 4

====
